---- MODULE Spec2Model ----
(***************************************************************************)
(* Connections between library objects (nion/swift/model/Connection.py):   *)
(* PropertyConnection and IntervalListConnection, with the ItemReference   *)
(* they resolve their endpoints through.  Everything runs synchronously    *)
(* on one thread, so each action is one whole call from the outside        *)
(* (a context event, a property set, a graphics mutation, close) with      *)
(* every listener it fires.                                                *)
(***************************************************************************)
EXTENDS Integers, Sequences, FiniteSets, TLC

\* ------------------------------------------------------------- bounds
\* property values (and interval values) are 0..MaxValue
MaxValue == 1
\* depth of nested setattr calls after which Python raises RecursionError
MaxDepth == 4
\* field mutations of schema entities in one behaviour
MaxOps == 5
\* length of an array field of a schema entity
MaxLen == 2
\* persistent objects created in one behaviour (the connection, its clones
\* and the connections rebuilt from records)
MaxCreated == 3

\* length of drawn_graphics up to which operations are inserted
MaxDrawn == 4

Values == 0..MaxValue
None == "None"

\* ------------------------------------------------------------- universe
PropertyKind == "property-connection"
IntervalKind == "interval-list-connection"

\* the persistent objects a specifier can name: for a PropertyConnection two
\* candidate sources and two candidate targets, for an IntervalListConnection
\* one display item and one line profile graphic
Sources(k) == IF k = PropertyKind THEN {"s1", "s2"} ELSE {"d1"}
Targets(k) == IF k = PropertyKind THEN {"t1", "t2"} ELSE {"t1"}
Objects(k) == Sources(k) \cup Targets(k)
AllObjects == {"s1", "s2", "d1", "t1", "t2"}
Refs == {"source", "target"}

\* graphics that can be put on the display: two IntervalGraphic, one other
GraphicIds == {"g1", "g2", "g3"}
IsIntervalGraphic(g) == g \in {"g1", "g2"}
IntervalGraphics == {g \in GraphicIds : IsIntervalGraphic(g)}

\* ------------------------------------------------ schema entities
\* the entities of Schema_test.py: a ContainerModel entity c with the four
\* fields of the test, a second owner c2 with an array of components, and
\* two ItemModel entities
Containers == {"c", "c2"}
Items == {"i1", "i2"}
Entities == Containers \cup Items
ArrayKeys == {"c_items", "r_items"}
ValueKeys == {"c_item", "r_item"}
Keys(p) == IF p = "c" THEN ArrayKeys \cup ValueKeys ELSE {"c_items"}
IsComponent(key) == key \in {"c_items", "c_item"}

\* ItemModel.create / ContainerModel.create: arrays empty, component and
\* reference fields None, no container, modified the time of creation
NewEntities ==
    [fields |-> [p \in Containers |->
                    [c_items |-> <<>>, r_items |-> <<>>,
                     c_item |-> None, r_item |-> None]],
     flag |-> [x \in Items |-> FALSE],
     container |-> [x \in Items |-> None],
     modified |-> [o \in Entities |-> 0],
     clock |-> 0,
     inserted_count |-> [p \in Containers |-> 0],
     removed_count |-> [p \in Containers |-> 0],
     changed_count |-> [p \in Containers |-> 0],
     appends |-> [p \in Containers |-> 0],
     removes |-> [p \in Containers |-> 0],
     last |-> [op |-> "create", obj |-> None, key |-> None,
               old |-> None, value |-> None,
               inserted |-> 0, removed |-> 0, changed |-> 0]]

\* ------------------------------------------------------------ Display
\* Display (model/Display.py).  The module-level names copy, Model,
\* ThreadPool and Image that the file uses without importing them are taken
\* to be bound.
\* the data items a display can be given, the graphics that can be put on
\* it, and the operations of the child data item of data item "a" with the
\* graphics each operation has
DataItems == {"a", "b"}
IntrinsicGraphics == {"k1", "k2"}
Operations == {"op1", "op2"}
OperationGraphics(op) == IF op = "op1" THEN <<"h1", "h2">> ELSE <<"h3">>
DrawnGraphics == IntrinsicGraphics \cup {"h1", "h2", "h3"}
\* the values display_limits is set to; unset, it reads True
DisplayLimits == {None, "narrow", "wide"}

\* what the last call on the display did: the notifications it sent and
\* the scope events of property_changes, in order, how many notifications
\* were delivered while a cached preview existed, and the exception raised
NewNotes(op) == [op |-> op, events |-> <<>>, cached |-> 0, error |-> "none"]

\* Display.__init__; the display's registrations as observer and listener
\* of, and its references on, the data items; its registrations as listener
\* of graphics
NewDisplay ==
    [data_item |-> None,
     observers |-> [a \in DataItems |-> 0],
     listeners |-> [a \in DataItems |-> 0],
     refs |-> [a \in DataItems |-> 0],
     display_limits |-> "True",
     graphics |-> <<>>,
     drawn_graphics |-> <<>>,
     graphic_listeners |-> [g \in DrawnGraphics |-> 0],
     shared_thread_pool_closed |-> FALSE,
     operations |-> <<>>,
     preview |-> None,
     notes |-> NewNotes("init")]

VARIABLES
    kind,                               \* type discriminator of the connection
    registered,                         \* objects registered in the context
    reference,                          \* [Refs -> [item_specifier, item]]
    closed,                             \* PersistentObject._closed
    binding,                            \* PropertyConnection.__binding: None or its source
    target_property_changed_listener,   \* None or the object listened to
    suppress,                           \* PropertyConnection.__suppress
    value,                              \* the bound property of every object
    item_inserted_event_listener,       \* None or the display listened to
    item_removed_event_listener,        \* None or the display listened to
    interval_mutated_listeners,         \* list of graphics listened to
    graphics,                           \* display.graphics
    interval,                           \* [IntervalGraphics -> Values]
    interval_descriptors,               \* line_profile.interval_descriptors
    persistent,                         \* uuid, persisted properties, written record
    schema,                             \* the entities of Schema_test.py
    display,                            \* a Display (model/Display.py)
    trace                               \* what the last call did

vars == <<kind, registered, reference, closed, binding,
          target_property_changed_listener, suppress, value,
          item_inserted_event_listener, item_removed_event_listener,
          interval_mutated_listeners, graphics, interval, interval_descriptors,
          persistent, schema, display, trace>>

\* the variables of the connection and of what it connects
connection_vars ==
    <<kind, registered, reference, closed, binding,
      target_property_changed_listener, suppress, value,
      item_inserted_event_listener, item_removed_event_listener,
      interval_mutated_listeners, graphics, interval, interval_descriptors,
      persistent, trace>>

\* ------------------------------------------------------------- helpers
ZeroSets == [o \in AllObjects |-> 0]

\* what the last call from outside did: op is "init" (the constructor),
\* "setattr" (a property of obj was set from outside) or "call" (any other);
\* the property sets the connection made per object, the reference callbacks
\* invoked, the recomputations and the assignments of interval_descriptors
\* the connection made, and the exception raised
NewTrace(op, obj) ==
    [op |-> op, obj |-> obj, sets |-> ZeroSets, callbacks |-> <<>>,
     recomputed |-> 0, assigned |-> 0, error |-> "none"]

\* the state as one record, for the handlers to transform
Cur ==
    [kind |-> kind, registered |-> registered,
     reference |-> reference, closed |-> closed, binding |-> binding,
     target_property_changed_listener |-> target_property_changed_listener,
     suppress |-> suppress, value |-> value,
     item_inserted_event_listener |-> item_inserted_event_listener,
     item_removed_event_listener |-> item_removed_event_listener,
     interval_mutated_listeners |-> interval_mutated_listeners,
     graphics |-> graphics, interval |-> interval,
     interval_descriptors |-> interval_descriptors,
     persistent |-> persistent,
     trace |-> trace]

Begin(op, obj) == [Cur EXCEPT !.trace = NewTrace(op, obj)]

ConnectionIs(c) ==
    /\ kind = c.kind
    /\ registered = c.registered
    /\ reference = c.reference
    /\ closed = c.closed
    /\ binding = c.binding
    /\ target_property_changed_listener = c.target_property_changed_listener
    /\ suppress = c.suppress
    /\ value = c.value
    /\ item_inserted_event_listener = c.item_inserted_event_listener
    /\ item_removed_event_listener = c.item_removed_event_listener
    /\ interval_mutated_listeners = c.interval_mutated_listeners
    /\ graphics = c.graphics
    /\ interval = c.interval
    /\ interval_descriptors = c.interval_descriptors
    /\ persistent = c.persistent
    /\ trace = c.trace

StateIs(c) ==
    /\ ConnectionIs(c)
    /\ schema = NewEntities
    /\ display = NewDisplay

Commit(c) ==
    /\ kind' = c.kind
    /\ registered' = c.registered
    /\ reference' = c.reference
    /\ closed' = c.closed
    /\ binding' = c.binding
    /\ target_property_changed_listener' = c.target_property_changed_listener
    /\ suppress' = c.suppress
    /\ value' = c.value
    /\ item_inserted_event_listener' = c.item_inserted_event_listener
    /\ item_removed_event_listener' = c.item_removed_event_listener
    /\ interval_mutated_listeners' = c.interval_mutated_listeners
    /\ graphics' = c.graphics
    /\ interval' = c.interval
    /\ interval_descriptors' = c.interval_descriptors
    /\ persistent' = c.persistent
    /\ trace' = c.trace
    /\ UNCHANGED <<schema, display>>

Raise(c, e) == [c EXCEPT !.trace.error = e]
Ok(c) == c.trace.error = "none"

\* PropertyConnection._source / _target, IntervalListConnection._source / _target
_source(c) == c.reference["source"].item
_target(c) == c.reference["target"].item

\* ------------------------------------------------- PropertyConnection
RECURSIVE setattr(_, _, _, _)
RECURSIVE set_target_from_source(_, _, _)
RECURSIVE set_source_from_target(_, _, _)

\* the listeners of obj.property_changed_event that belong to the connection:
\* the PropertyBinding's (on the source it was created with), then the
\* target property_changed listener, each reading the property's value
fire_property_changed(c, obj, fuel) ==
    LET c1 == IF c.binding = obj
              THEN set_target_from_source(c, c.value[obj], fuel)
              ELSE c
    IN  IF Ok(c1) /\ c1.target_property_changed_listener = obj
        THEN set_source_from_target(c1, c1.value[obj], fuel)
        ELSE c1

\* setattr(obj, property, v): store the value, then fire property_changed
setattr(c, obj, v, fuel) ==
    IF fuel = 0 THEN Raise(c, "RecursionError")
    ELSE fire_property_changed([c EXCEPT !.value[obj] = v], obj, fuel - 1)

\* as set_target_from_source, with the suppress flag neither read nor set
set_target_from_source_unguarded(c, v, fuel) ==
    IF c.closed THEN Raise(c, "AssertionError")
    ELSE IF _target(c) = None THEN Raise(c, "AttributeError")
    ELSE setattr([c EXCEPT !.trace.sets[_target(c)] = @ + 1], _target(c), v, fuel)

set_target_from_source(c, v, fuel) ==
    IF c.closed THEN Raise(c, "AssertionError")
    ELSE IF c.suppress THEN c
    ELSE IF _target(c) = None THEN Raise([c EXCEPT !.suppress = TRUE], "AttributeError")
    ELSE LET c1 == [c EXCEPT !.suppress = TRUE,
                             !.trace.sets[_target(c)] = @ + 1]
             c2 == setattr(c1, _target(c), v, fuel)
         IN  IF Ok(c2) THEN [c2 EXCEPT !.suppress = FALSE] ELSE c2

set_source_from_target(c, v, fuel) ==
    IF c.closed THEN Raise(c, "AssertionError")
    ELSE IF c.suppress THEN c
    ELSE LET c1 == [c EXCEPT !.suppress = TRUE]
             c2 == IF c1.binding # None
                   THEN setattr([c1 EXCEPT !.trace.sets[c1.binding] = @ + 1],
                                c1.binding, v, fuel)
                   ELSE c1
         IN  IF Ok(c2) THEN [c2 EXCEPT !.suppress = FALSE] ELSE c2

\* as configure_binding, with the initial value taken from the target and
\* written to the source
configure_binding_target_wins(c) ==
    IF _source(c) # None /\ _target(c) # None
    THEN IF c.binding # None THEN Raise(c, "AssertionError")
         ELSE LET c1 == [c EXCEPT !.binding = _source(c)]
              IN  set_source_from_target(c1, c1.value[_target(c)], MaxDepth)
    ELSE c

configure_binding(c) ==
    IF _source(c) # None /\ _target(c) # None
    THEN IF c.binding # None THEN Raise(c, "AssertionError")
         ELSE LET c1 == [c EXCEPT !.binding = _source(c)]
              IN  set_target_from_source(c1, c1.value[_source(c)], MaxDepth)
    ELSE c

\* as release_binding, with the target listener left open
release_binding_keeps_listener(c) == [c EXCEPT !.binding = None]

release_binding(c) ==
    [c EXCEPT !.binding = None, !.target_property_changed_listener = None]

configure_target(c) ==
    IF c.target_property_changed_listener # None THEN Raise(c, "AssertionError")
    ELSE LET c1 == IF _target(c) # None
                   THEN [c EXCEPT !.target_property_changed_listener = _target(c)]
                   ELSE c
         IN  configure_binding(c1)

\* PersistentObject.close(): the object is closed and its item references
\* stop calling back
PersistentObject_close(c) == [c EXCEPT !.closed = TRUE]

\* as PropertyConnection.close, with the binding left open
PropertyConnection_close_keeps_binding(c) ==
    PersistentObject_close([c EXCEPT !.target_property_changed_listener = None])

PropertyConnection_close(c) ==
    PersistentObject_close(
        [c EXCEPT !.binding = None, !.target_property_changed_listener = None])

\* --------------------------------------------- IntervalListConnection
IntervalDescriptor(g, c) == [interval |-> c.interval[g], color |-> "#F00"]

\* as detach, with the listeners neither closed nor forgotten
detach_keeps_listeners(c) == c

detach(c) == [c EXCEPT !.interval_mutated_listeners = <<>>]

RECURSIVE RegionDescriptors(_, _)
RegionDescriptors(gs, c) ==
    IF gs = <<>> THEN <<>>
    ELSE IF IsIntervalGraphic(Head(gs))
         THEN <<IntervalDescriptor(Head(gs), c)>> \o RegionDescriptors(Tail(gs), c)
         ELSE RegionDescriptors(Tail(gs), c)

RECURSIVE RegionListeners(_)
RegionListeners(gs) ==
    IF gs = <<>> THEN <<>>
    ELSE IF IsIntervalGraphic(Head(gs))
         THEN <<Head(gs)>> \o RegionListeners(Tail(gs))
         ELSE RegionListeners(Tail(gs))

\* as reattach, without the comparison before the assignment
reattach_always_assigns(c) ==
    LET c1 == detach(c)
        regions == IF _source(c1) # None THEN c1.graphics ELSE <<>>
        c2 == [c1 EXCEPT !.interval_mutated_listeners = @ \o RegionListeners(regions),
                         !.trace.recomputed = @ + 1]
    IN  IF _target(c2) # None
        THEN [c2 EXCEPT !.interval_descriptors = RegionDescriptors(regions, c1),
                        !.trace.assigned = @ + 1]
        ELSE c2

reattach(c) ==
    LET c1 == detach(c)
        regions == IF _source(c1) # None THEN c1.graphics ELSE <<>>
        descriptors == RegionDescriptors(regions, c1)
        c2 == [c1 EXCEPT !.interval_mutated_listeners = @ \o RegionListeners(regions),
                         !.trace.recomputed = @ + 1]
    IN  IF _target(c2) # None /\ c2.interval_descriptors # descriptors
        THEN [c2 EXCEPT !.interval_descriptors = descriptors,
                        !.trace.assigned = @ + 1]
        ELSE c2

item_inserted(c, key) ==
    IF key = "graphics" /\ _target(c) # None THEN reattach(c) ELSE c

item_removed(c, key) ==
    IF key = "graphics" /\ _target(c) # None THEN reattach(c) ELSE c

source_registered(c) ==
    LET c1 == IF _source(c) # None
              THEN [c EXCEPT !.item_inserted_event_listener = _source(c),
                             !.item_removed_event_listener = _source(c)]
              ELSE c
    IN  reattach(c1)

\* as target_registered, first copying the line profile's descriptors onto
\* the interval graphics listened to (the connection made two-way)
target_registered_writes_back(c) ==
    LET ls == c.interval_mutated_listeners
        ds == c.interval_descriptors
        described(g) == {i \in 1..Len(ls) : i <= Len(ds) /\ ls[i] = g}
    IN  reattach([c EXCEPT !.interval =
                    [g \in IntervalGraphics |->
                        IF described(g) # {}
                        THEN ds[CHOOSE i \in described(g) : TRUE].interval
                        ELSE @[g]]])

target_registered(c) == reattach(c)

unregistered(c) ==
    [c EXCEPT !.item_inserted_event_listener = None,
              !.item_removed_event_listener = None]

\* ------------------------------------------- the reference callbacks
on_item_registered(c, r) ==
    IF c.kind = PropertyKind
    THEN IF r = "source" THEN configure_binding(c) ELSE configure_target(c)
    ELSE IF r = "source" THEN source_registered(c) ELSE target_registered(c)

on_item_unregistered(c, r) ==
    IF c.kind = PropertyKind THEN release_binding(c) ELSE unregistered(c)

\* ------------------------------------------------------ ItemReference
Called(c, r, cb) ==
    [c EXCEPT !.trace.callbacks = Append(@, <<r, cb>>)]

\* the reference stops resolving u
ItemReference_unresolve(c, r) ==
    on_item_unregistered(
        Called([c EXCEPT !.reference[r].item = None], r, "unregistered"), r)

\* the reference starts resolving u
ItemReference_resolve(c, r, u) ==
    on_item_registered(
        Called([c EXCEPT !.reference[r].item = u], r, "registered"), r)

\* the context registered u
ItemReference_item_registered(c, r, u) ==
    IF /\ ~c.closed
       /\ c.persistent.attached
       /\ c.reference[r].item_specifier = u
       /\ c.reference[r].item = None
    THEN ItemReference_resolve(c, r, u)
    ELSE c

\* the context unregistered u
ItemReference_item_unregistered(c, r, u) ==
    IF ~c.closed /\ c.reference[r].item = u
    THEN ItemReference_unresolve(c, r)
    ELSE c

\* as item_specifier = s, with the item it resolved before not given up first
ItemReference_set_item_specifier_keeps_old(c, r, s) ==
    LET c1 == [c EXCEPT !.reference[r].item_specifier = s]
    IN  IF /\ c1.persistent.attached
           /\ s # None
           /\ s \in c1.registered
           /\ c1.reference[r].item # s
        THEN ItemReference_resolve(c1, r, s)
        ELSE IF s = None /\ c1.reference[r].item # None
             THEN ItemReference_unresolve(c1, r)
             ELSE c1

\* item_specifier = s: resolution is evaluated again
ItemReference_set_item_specifier(c, r, s) ==
    LET c1 == [c EXCEPT !.reference[r].item_specifier = s]
        c2 == IF c.reference[r].item # None /\ c.reference[r].item # s
              THEN ItemReference_unresolve(c1, r)
              ELSE c1
    IN  IF /\ c2.persistent.attached
           /\ c2.reference[r].item = None
           /\ s # None
           /\ s \in c2.registered
        THEN ItemReference_resolve(c2, r, s)
        ELSE c2

\* ------------------------------------------------------- construction
\* Connection.__init__ and PersistentObject.__init__: the connection is the
\* first object created (uuid 1), it is in its project, its parent is None;
\* a PropertyConnection is given the names of the two properties
NewPersistent(k) ==
    [uuid |-> 1,
     reassigned |-> 0,
     created |-> 1,
     attached |-> TRUE,
     parent_specifier |-> None,
     source_property |-> IF k = PropertyKind THEN "p" ELSE None,
     target_property |-> IF k = PropertyKind THEN "q" ELSE None,
     record |-> <<>>,
     clones |-> <<>>]

Blank(k, reg, val, gs, iv, ds, source, target) ==
    [kind |-> k,
     registered |-> reg,
     reference |-> [r \in Refs |->
                      IF r = "source"
                      THEN [item_specifier |-> source, item |-> source]
                      ELSE [item_specifier |-> target, item |-> target]],
     closed |-> FALSE,
     binding |-> None,
     target_property_changed_listener |-> None,
     suppress |-> FALSE,
     value |-> val,
     item_inserted_event_listener |-> None,
     item_removed_event_listener |-> None,
     interval_mutated_listeners |-> <<>>,
     graphics |-> gs,
     interval |-> iv,
     interval_descriptors |-> ds,
     persistent |-> NewPersistent(k),
     trace |-> NewTrace("init", None)]

PropertyConnection_init(c) ==
    IF _target(c) # None THEN configure_target(c) ELSE c

IntervalListConnection_init(c) ==
    LET c1 == IF _source(c) # None THEN source_registered(c) ELSE c
    IN  IF _target(c1) # None THEN target_registered(c1) ELSE c1

NoValues == [o \in AllObjects |-> 0]
NoIntervals == [g \in IntervalGraphics |-> 0]

\* an object handed to the constructor has a project, so it is registered
InitProperty ==
    \E source \in Sources(PropertyKind) \cup {None},
       target \in Targets(PropertyKind) \cup {None},
       reg \in SUBSET Objects(PropertyKind),
       val \in [Objects(PropertyKind) -> Values] :
        /\ {source, target} \ {None} \subseteq reg
        /\ StateIs(PropertyConnection_init(
               Blank(PropertyKind, reg,
                     [o \in AllObjects |-> IF o \in DOMAIN val THEN val[o] ELSE 0],
                     <<>>, NoIntervals, <<>>, source, target)))

\* ------------------------------------------------------------ actions
\* the context registers u: every reference watching u is told
Register(u) ==
    /\ u \in Objects(kind) \ registered
    /\ Commit(ItemReference_item_registered(
                ItemReference_item_registered(
                    [Begin("call", None) EXCEPT !.registered = @ \cup {u}],
                    "source", u),
                "target", u))

\* the context unregisters u
Unregister(u) ==
    /\ u \in registered
    /\ Commit(ItemReference_item_unregistered(
                ItemReference_item_unregistered(
                    [Begin("call", None) EXCEPT !.registered = @ \ {u}],
                    "source", u),
                "target", u))

\* source_specifier = s (__source_specifier_changed)
SetSourceSpecifier(s) ==
    /\ ~closed
    /\ s \in Sources(kind) \cup {None}
    /\ s # reference["source"].item_specifier
    /\ Commit(ItemReference_set_item_specifier(
                Begin("call", None), "source", s))

\* target_specifier = s (__target_specifier_changed)
SetTargetSpecifier(s) ==
    /\ ~closed
    /\ s \in Targets(kind) \cup {None}
    /\ s # reference["target"].item_specifier
    /\ Commit(ItemReference_set_item_specifier(
                Begin("call", None), "target", s))

\* somebody outside the connection sets the bound property of o to v
SetProperty(o, v) ==
    /\ kind = PropertyKind
    /\ o \in Objects(kind)
    /\ Commit(setattr(Begin("setattr", o), o, v, MaxDepth))

Close ==
    /\ ~closed
    /\ Commit(IF kind = PropertyKind
              THEN PropertyConnection_close(Begin("call", None))
              ELSE PersistentObject_close(Begin("call", None)))

\* ---------------------------------- display and line profile, outside
InsertAt(seq, i, g) == SubSeq(seq, 1, i - 1) \o <<g>> \o SubSeq(seq, i, Len(seq))
Without(seq, g) == SelectSeq(seq, LAMBDA x : x # g)
InSeq(seq, g) == \E i \in 1..Len(seq) : seq[i] = g

\* the values somebody else may assign to line_profile.interval_descriptors
ExternalDescriptors ==
    {<<>>, <<[interval |-> 0, color |-> "#F00"]>>}

InitInterval ==
    \E source \in Sources(IntervalKind) \cup {None},
       target \in Targets(IntervalKind) \cup {None},
       reg \in SUBSET Objects(IntervalKind),
       gs \in {<<>>, <<"g1">>, <<"g3", "g2">>},
       iv \in [IntervalGraphics -> Values],
       ds \in ExternalDescriptors :
        /\ {source, target} \ {None} \subseteq reg
        /\ StateIs(IntervalListConnection_init(
               Blank(IntervalKind, reg, NoValues, gs, iv, ds, source, target)))

\* as InsertGraphic, with item_inserted_event fired before the insertion
InsertGraphic_fires_first(g, i) ==
    /\ kind = IntervalKind
    /\ ~InSeq(graphics, g)
    /\ i \in 1..(Len(graphics) + 1)
    /\ LET c == Begin("call", None)
           c1 == IF c.item_inserted_event_listener # None
                 THEN item_inserted(c, "graphics")
                 ELSE c
       IN  Commit([c1 EXCEPT !.graphics = InsertAt(@, i, g)])

\* display.insert_item("graphics", i, g): the graphic is in the list when
\* item_inserted_event fires
InsertGraphic(g, i) ==
    /\ kind = IntervalKind
    /\ ~InSeq(graphics, g)
    /\ i \in 1..(Len(graphics) + 1)
    /\ LET c == [Begin("call", None) EXCEPT !.graphics = InsertAt(@, i, g)]
       IN  Commit(IF c.item_inserted_event_listener # None
                  THEN item_inserted(c, "graphics")
                  ELSE c)

\* display.remove_item("graphics", g): the graphic is gone from the list
\* when item_removed_event fires
RemoveGraphic(g) ==
    /\ kind = IntervalKind
    /\ InSeq(graphics, g)
    /\ LET c == [Begin("call", None) EXCEPT !.graphics = Without(@, g)]
       IN  Commit(IF c.item_removed_event_listener # None
                  THEN item_removed(c, "graphics")
                  ELSE c)

\* an item is inserted into or removed from another list of the display
\* item (its display data channels)
ChangeOtherItems(inserted) ==
    /\ kind = IntervalKind
    /\ LET c == Begin("call", None)
       IN  Commit(IF inserted
                  THEN IF c.item_inserted_event_listener # None
                       THEN item_inserted(c, "display_data_channels") ELSE c
                  ELSE IF c.item_removed_event_listener # None
                       THEN item_removed(c, "display_data_channels") ELSE c)

\* graphic.interval = v: property_changed_event fires on the graphic
SetInterval(g, v) ==
    /\ kind = IntervalKind
    /\ g \in IntervalGraphics
    /\ LET c == [Begin("call", None) EXCEPT !.interval[g] = v]
       IN  Commit(IF InSeq(c.interval_mutated_listeners, g)
                  THEN reattach(c)
                  ELSE c)

\* line_profile.interval_descriptors = d, by somebody else
SetIntervalDescriptors(d) ==
    /\ kind = IntervalKind
    /\ d # interval_descriptors
    /\ Commit([Begin("call", None) EXCEPT !.interval_descriptors = d])

\* ------------------------------------------------ clones and records
\* copy.deepcopy(self): a new persistent object, created with a uuid of its
\* own
deepcopy(c) ==
    [c EXCEPT !.persistent.created = @ + 1,
              !.persistent.clones =
                  Append(@, [uuid |-> c.persistent.created + 1, reassigned |-> 0])]

\* Connection.clone: the copy's uuid is then assigned the original's
clone(c) ==
    LET c1 == deepcopy(c)
        connection == Len(c1.persistent.clones)
    IN  [c1 EXCEPT !.persistent.clones[connection].uuid = c.persistent.uuid,
                   !.persistent.clones[connection].reassigned = @ + 1]

\* write_to_dict: type, uuid and the properties under their storage keys
write_to_dict(c) ==
    [type |-> c.kind,
     uuid |-> c.persistent.uuid,
     parent_uuid |-> c.persistent.parent_specifier,
     source_uuid |-> c.reference["source"].item_specifier,
     source_property |-> c.persistent.source_property,
     target_uuid |-> c.reference["target"].item_specifier,
     target_property |-> c.persistent.target_property]

\* as connection_factory, with the two classes of build_map exchanged
connection_factory_exchanged(c, lookup_id) ==
    IF lookup_id["type"] \in {PropertyKind, IntervalKind}
    THEN LET type == IF lookup_id["type"] = PropertyKind
                     THEN IntervalKind ELSE PropertyKind
             blank == Blank(type, c.registered, c.value, c.graphics, c.interval,
                            c.interval_descriptors, None, None)
         IN  [blank EXCEPT !.persistent.uuid = c.persistent.created + 1,
                           !.persistent.created = c.persistent.created + 1,
                           !.persistent.attached = FALSE,
                           !.persistent.source_property = None,
                           !.persistent.target_property = None,
                           !.persistent.record = c.persistent.record,
                           !.persistent.clones = c.persistent.clones,
                           !.trace = c.trace]
    ELSE None

\* connection_factory: build_map[type]() makes a connection of the record's
\* type with no argument (no endpoint, no property name, not yet in a
\* project), and an unknown type gives None
connection_factory(c, lookup_id) ==
    IF lookup_id["type"] \in {PropertyKind, IntervalKind}
    THEN LET type == lookup_id["type"]
             blank == Blank(type, c.registered, c.value, c.graphics, c.interval,
                            c.interval_descriptors, None, None)
             built == IF type = PropertyKind
                      THEN PropertyConnection_init(blank)
                      ELSE IntervalListConnection_init(blank)
         IN  [built EXCEPT !.persistent.uuid = c.persistent.created + 1,
                           !.persistent.created = c.persistent.created + 1,
                           !.persistent.attached = FALSE,
                           !.persistent.source_property = None,
                           !.persistent.target_property = None,
                           !.persistent.record = c.persistent.record,
                           !.persistent.clones = c.persistent.clones,
                           !.trace = c.trace]
    ELSE None

\* read_from_dict: the uuid and the properties are taken from the record; the
\* specifier properties reach the references through their changed callbacks
\* (__source_specifier_changed, __target_specifier_changed)
read_from_dict(c, d) ==
    LET c1 == [c EXCEPT !.persistent.uuid = d.uuid,
                        !.persistent.parent_specifier = d.parent_uuid,
                        !.persistent.source_property = d.source_property,
                        !.persistent.target_property = d.target_property]
        c2 == ItemReference_set_item_specifier(c1, "source", d.source_uuid)
    IN  ItemReference_set_item_specifier(c2, "target", d.target_uuid)

\* the connection is put into its project: its references start to watch
\* the context and resolve what is registered
persistent_object_context_changed(c) ==
    LET c1 == [c EXCEPT !.persistent.attached = TRUE]
        c2 == ItemReference_set_item_specifier(
                  c1, "source", c1.reference["source"].item_specifier)
    IN  ItemReference_set_item_specifier(
            c2, "target", c2.reference["target"].item_specifier)

Clone ==
    /\ persistent.created < MaxCreated
    /\ Commit(clone(Begin("call", None)))

\* the connection is written to a record
Write ==
    /\ persistent.record # <<write_to_dict(Cur)>>
    /\ Commit([Begin("call", None) EXCEPT !.persistent.record = <<write_to_dict(Cur)>>])

\* the connection is rebuilt from the record: the factory, then the read;
\* from here on the rebuilt connection is the connection
Rebuild ==
    /\ persistent.record # <<>>
    /\ persistent.created < MaxCreated
    /\ LET c == Begin("read", None)
           d == c.persistent.record[1]
       IN  Commit(read_from_dict(connection_factory(c, d), d))

\* the rebuilt connection is inserted into the project
Attach ==
    /\ ~persistent.attached
    /\ Commit(persistent_object_context_changed(Begin("attach", None)))

Parents == {None, "d1"}

\* a connection of either kind, constructed with or without endpoints and
\* parent
InitPersistence ==
    \E k \in {PropertyKind, IntervalKind} :
    \E source \in Sources(k) \cup {None},
       target \in Targets(k) \cup {None},
       reg \in SUBSET Objects(k),
       parent \in Parents :
        /\ {source, target} \ {None} \subseteq reg
        /\ LET blank == [Blank(k, reg, NoValues, <<"g1">>, NoIntervals, <<>>,
                               source, target)
                            EXCEPT !.persistent.parent_specifier = parent]
           IN  StateIs(IF k = PropertyKind
                       THEN PropertyConnection_init(blank)
                       ELSE IntervalListConnection_init(blank))

NextPersistence ==
    \/ \E u \in Objects(kind) : Register(u)
    \/ \E u \in Objects(kind) : Unregister(u)
    \/ \E s \in Sources(kind) \cup {None} :
            persistent.attached /\ SetSourceSpecifier(s)
    \/ \E s \in Targets(kind) \cup {None} :
            persistent.attached /\ SetTargetSpecifier(s)
    \/ Clone
    \/ Write
    \/ Rebuild
    \/ Attach

SpecPersistence == InitPersistence /\ [][NextPersistence]_vars

\* ---------------------------------------------- schema entity fields
\* a field mutation of obj begins: time passes, and what it does is
\* observed anew
Start(e, op, obj, key, old, new) ==
    [e EXCEPT !.clock = @ + 1,
              !.last = [op |-> op, obj |-> obj, key |-> key,
                        old |-> old, value |-> new,
                        inserted |-> 0, removed |-> 0, changed |-> 0]]

\* as touch, with the container's modified updated as well
touch_with_container(e, o) ==
    LET e1 == [e EXCEPT !.modified[o] = e.clock]
    IN  IF o \in Items /\ e.container[o] # None
        THEN [e1 EXCEPT !.modified[e.container[o]] = e.clock]
        ELSE e1

\* modified = the current time
touch(e, o) == [e EXCEPT !.modified[o] = e.clock]

_set_container(e, x, p) == [e EXCEPT !.container[x] = p]

\* the listeners of the test: item_inserted, item_removed, property_changed
fire_item_inserted(e, p) ==
    [e EXCEPT !.inserted_count[p] = @ + 1, !.last.inserted = @ + 1]

fire_item_removed(e, p) ==
    [e EXCEPT !.removed_count[p] = @ + 1, !.last.removed = @ + 1]

notify_property_changed(e, p) ==
    IF p \in Containers
    THEN [e EXCEPT !.changed_count[p] = @ + 1, !.last.changed = @ + 1]
    ELSE [e EXCEPT !.last.changed = @ + 1]

_get_field_value(e, p, key) == e.fields[p][key]

_get_array_item(e, p, key, index) == e.fields[p][key][index + 1]

IndexOf(seq, x) == CHOOSE i \in 1..Len(seq) : seq[i] = x /\ \A j \in 1..(i - 1) : seq[j] # x
RemoveFirst(seq, x) ==
    SubSeq(seq, 1, IndexOf(seq, x) - 1) \o SubSeq(seq, IndexOf(seq, x) + 1, Len(seq))

\* _append_item(key, x): a component gets p as container
_append_item(e, p, key, x) ==
    LET e1 == [Start(e, "append", p, key, None, x)
                 EXCEPT !.fields[p][key] = Append(@, x),
                        !.appends[p] = @ + 1]
        e2 == IF IsComponent(key) THEN _set_container(e1, x, p) ELSE e1
    IN  fire_item_inserted(touch(e2, p), p)

\* as _remove_item, with the container of a removed component left set
_remove_item_keeps_container(e, p, key, x) ==
    LET e1 == [Start(e, "remove", p, key, x, None)
                 EXCEPT !.fields[p][key] = RemoveFirst(@, x),
                        !.removes[p] = @ + 1]
    IN  fire_item_removed(touch(e1, p), p)

\* as _remove_item, firing item_inserted where item_removed is meant
_remove_item_fires_inserted(e, p, key, x) ==
    LET e1 == [Start(e, "remove", p, key, x, None)
                 EXCEPT !.fields[p][key] = RemoveFirst(@, x),
                        !.removes[p] = @ + 1]
        e2 == IF IsComponent(key) THEN _set_container(e1, x, None) ELSE e1
    IN  fire_item_inserted(touch(e2, p), p)

\* _remove_item(key, x): a removed component has no container
_remove_item(e, p, key, x) ==
    LET e1 == [Start(e, "remove", p, key, x, None)
                 EXCEPT !.fields[p][key] = RemoveFirst(@, x),
                        !.removes[p] = @ + 1]
        e2 == IF IsComponent(key) THEN _set_container(e1, x, None) ELSE e1
    IN  fire_item_removed(touch(e2, p), p)

\* as _set_field_value, with no event when the field is set to None
_set_field_value_silent_on_none(e, p, key, x) ==
    LET old == _get_field_value(e, p, key)
        e1 == [Start(e, "set", p, key, old, x) EXCEPT !.fields[p][key] = x]
        e2 == IF IsComponent(key) /\ old # None
              THEN _set_container(e1, old, None) ELSE e1
        e3 == IF IsComponent(key) /\ x # None
              THEN _set_container(e2, x, p) ELSE e2
    IN  IF x # None THEN notify_property_changed(touch(e3, p), p) ELSE touch(e3, p)

\* _set_field_value(key, x) on a component or reference field: the
\* component given up has no container, the new one has p
_set_field_value(e, p, key, x) ==
    LET old == _get_field_value(e, p, key)
        e1 == [Start(e, "set", p, key, old, x) EXCEPT !.fields[p][key] = x]
        e2 == IF IsComponent(key) /\ old # None
              THEN _set_container(e1, old, None) ELSE e1
        e3 == IF IsComponent(key) /\ x # None
              THEN _set_container(e2, x, p) ELSE e2
    IN  notify_property_changed(touch(e3, p), p)

\* _set_field_value("flag", b) on an item: a scalar field
_set_flag(e, x, b) ==
    LET e1 == [Start(e, "flag", x, "flag", e.flag[x], b) EXCEPT !.flag[x] = b]
    IN  notify_property_changed(touch(e1, x), x)

\* an object is owned by one container at a time: to move a component it is
\* removed and then inserted
Unowned(x) == IF x = None THEN TRUE ELSE schema.container[x] = None

AppendItem(p, key, x) ==
    /\ schema.clock < MaxOps
    /\ key \in Keys(p) \cap ArrayKeys
    /\ Len(schema.fields[p][key]) < MaxLen
    /\ IsComponent(key) => Unowned(x)
    /\ schema' = _append_item(schema, p, key, x)
    /\ UNCHANGED <<connection_vars, display>>

RemoveItem(p, key, x) ==
    /\ schema.clock < MaxOps
    /\ key \in Keys(p) \cap ArrayKeys
    /\ InSeq(schema.fields[p][key], x)
    /\ schema' = _remove_item(schema, p, key, x)
    /\ UNCHANGED <<connection_vars, display>>

SetFieldValue(p, key, x) ==
    /\ schema.clock < MaxOps
    /\ key \in Keys(p) \cap ValueKeys
    /\ IsComponent(key) => Unowned(x)
    /\ schema' = _set_field_value(schema, p, key, x)
    /\ UNCHANGED <<connection_vars, display>>

SetFlag(x, b) ==
    /\ schema.clock < MaxOps
    /\ schema' = _set_flag(schema, x, b)
    /\ UNCHANGED <<connection_vars, display>>

InitSchema ==
    /\ ConnectionIs(Blank(PropertyKind, {}, NoValues, <<>>, NoIntervals, <<>>,
                          None, None))
    /\ schema = NewEntities
    /\ display = NewDisplay

NextSchema ==
    \/ \E p \in Containers, key \in ArrayKeys, x \in Items : AppendItem(p, key, x)
    \/ \E p \in Containers, key \in ArrayKeys, x \in Items : RemoveItem(p, key, x)
    \/ \E p \in Containers, key \in ValueKeys, x \in Items \cup {None} :
            SetFieldValue(p, key, x)
    \/ \E x \in Items, b \in BOOLEAN : SetFlag(x, b)

SpecSchema == InitSchema /\ [][NextSchema]_vars

\* ------------------------------------------------------------ Display
Note(d, event) == [d EXCEPT !.notes.events = Append(@, event)]
Fail(d, e) == [d EXCEPT !.notes.error = e]
Fine(d) == d.notes.error = "none"
Call(op) == [display EXCEPT !.notes = NewNotes(op)]

\* a notification is delivered: a listener reading preview_2d in it gets the
\* cached preview when there is one
Deliver(d, event) ==
    IF d.preview # None
    THEN [Note(d, event) EXCEPT !.notes.cached = @ + 1]
    ELSE Note(d, event)

\* notify_set_property(key, value), notify_listeners("display_changed", self)
notify_set_property(d, key) == Deliver(d, key)
notify_listeners(d, message) == Deliver(d, message)

\* value.add_listener(self) / value.remove_listener(self) on a graphic
add_listener(d, g) == [d EXCEPT !.graphic_listeners[g] = @ + 1]
remove_listener(d, g) ==
    [d EXCEPT !.graphic_listeners[g] = IF @ > 0 THEN @ - 1 ELSE 0]

\* as _set_data_item, with nothing removed from the data item given up
_set_data_item_keeps_old(d, data_item) ==
    LET d2 == [d EXCEPT !.data_item = data_item]
    IN  IF data_item # None
        THEN [d2 EXCEPT !.refs[data_item] = @ + 1,
                        !.observers[data_item] = @ + 1,
                        !.listeners[data_item] = @ + 1]
        ELSE d2

\* Display._set_data_item
_set_data_item(d, data_item) ==
    LET old == d.data_item
        d1 == IF old # None
              THEN [d EXCEPT !.observers[old] = IF @ > 0 THEN @ - 1 ELSE 0,
                             !.listeners[old] = IF @ > 0 THEN @ - 1 ELSE 0,
                             !.refs[old] = IF @ > 0 THEN @ - 1 ELSE 0]
              ELSE d
        d2 == [d1 EXCEPT !.data_item = data_item]
    IN  IF data_item # None
        THEN [d2 EXCEPT !.refs[data_item] = @ + 1,
                        !.observers[data_item] = @ + 1,
                        !.listeners[data_item] = @ + 1]
        ELSE d2

\* the private names of Display, as they stand in its class body
Mangled(class, name) == "_" \o class \o name

\* the names the module DataItem is used with in Display.py
DataItemModule == {"ThumbnailDataItemProcessor", "HistogramDataItemProcessor"}

\* Display.__release_properties
release_properties(d) ==
    [notify_listeners(notify_set_property(d, "properties"), "display_changed")
        EXCEPT !.preview = None]

\* with self.property_changes() as pc: the body, which sets a property
\* (limits) or raises (fails); property_changes() looks up
\* DataItem.__grab_properties and DataItem.__release_properties, which in
\* the body of class Display are the attributes _Display__grab_properties
\* and _Display__release_properties of the module DataItem; __exit__ calls
\* release_properties and lets the body's exception through
property_changes(d, limits, fails) ==
    IF ~({Mangled("Display", "__grab_properties"),
          Mangled("Display", "__release_properties")} \subseteq DataItemModule)
    THEN Fail(d, "AttributeError")
    ELSE LET d1 == Note(d, "enter")
             d2 == IF fails THEN Fail(d1, "Exception")
                   ELSE [d1 EXCEPT !.display_limits = limits]
         IN  release_properties(Note(d2, "exit"))

\* Display.__get_display_range
display_range(d) ==
    IF d.data_item = None THEN Fail(d, "AttributeError") ELSE d

\* Display.__get_preview_2d: computed from the data item's data (taken to be
\* 2d), the data range and the display limits, and cached
preview_2d(d) ==
    IF d.preview # None THEN d
    ELSE IF d.data_item = None THEN Fail(d, "AttributeError")
    ELSE [d EXCEPT !.preview = "preview"]

\* Display.property_changed, the message of the data item to its observers
property_changed(d, property) ==
    IF property = "data_range"
    THEN LET d1 == notify_set_property([d EXCEPT !.preview = None], property)
             d2 == display_range(d1)
         IN  IF Fine(d2) THEN notify_set_property(d2, "display_range") ELSE d2
    ELSE d

\* Display.data_item_content_changed, the message of the data item to its
\* listeners
data_item_content_changed(d) ==
    notify_listeners([d EXCEPT !.preview = None], "display_changed")

\* Display.__set_display_limits
set_display_limits(d, limits) ==
    LET d1 == property_changes(d, limits, FALSE)
        d2 == IF Fine(d1) THEN notify_set_property(d1, "display_limits") ELSE d1
        d3 == IF Fine(d2) THEN display_range(d2) ELSE d2
    IN  IF Fine(d3) THEN notify_set_property(d3, "display_range") ELSE d3

\* as notify_insert_item, with the graphic put at the end of drawn_graphics
notify_insert_item_appends(d, key, g, before_index) ==
    IF key = "graphics"
    THEN notify_listeners(
             add_listener([d EXCEPT !.drawn_graphics = Append(@, g)], g),
             "display_changed")
    ELSE d

\* Display.notify_insert_item
notify_insert_item(d, key, g, before_index) ==
    IF key = "graphics"
    THEN notify_listeners(
             add_listener([d EXCEPT !.drawn_graphics =
                              InsertAt(@, before_index + 1, g)], g),
             "display_changed")
    ELSE d

\* Display.notify_remove_item
notify_remove_item(d, key, g, index) ==
    IF key = "graphics"
    THEN IF index + 1 > Len(d.drawn_graphics) THEN Fail(d, "IndexError")
         ELSE notify_listeners(
                  remove_listener(
                      [d EXCEPT !.drawn_graphics =
                           SubSeq(@, 1, index) \o SubSeq(@, index + 2, Len(@))], g),
                  "display_changed")
    ELSE d

\* Display.insert_graphic: the relationship inserts and notifies its parent
insert_graphic(d, index, g) ==
    notify_insert_item([d EXCEPT !.graphics = InsertAt(@, index + 1, g)],
                       "graphics", g, index)

\* Display.append_graphic
append_graphic(d, g) == insert_graphic(d, Len(d.graphics), g)

\* Display.extend_graphics: the relationship appends one after the other
RECURSIVE extend_graphics(_, _)
extend_graphics(d, gs) ==
    IF gs = <<>> THEN d
    ELSE extend_graphics(append_graphic(d, Head(gs)), Tail(gs))

\* Display.remove_graphic: the relationship removes and notifies its parent
remove_graphic(d, g) ==
    IF ~InSeq(d.graphics, g) THEN Fail(d, "ValueError")
    ELSE LET index == IndexOf(d.graphics, g) - 1
         IN  notify_remove_item([d EXCEPT !.graphics = RemoveFirst(@, g)],
                                "graphics", g, index)

\* the operations of the child data items of the display's data item
ChildOperations(d) == IF d.data_item = "a" THEN d.operations ELSE <<>>

RECURSIVE GraphicsCount(_)
GraphicsCount(ops) ==
    IF ops = <<>> THEN 0
    ELSE Len(OperationGraphics(Head(ops))) + GraphicsCount(Tail(ops))

\* Display.operation_inserted_into_child_data_item: the loop over the
\* reversed graphics of the matching operation returns in its first pass
operation_inserted_into_child_data_item(d, child_operation_item) ==
    IF d.data_item = None THEN Fail(d, "AttributeError")
    ELSE LET ops == ChildOperations(d)
         IN  IF ~InSeq(ops, child_operation_item) THEN d
             ELSE LET position == IndexOf(ops, child_operation_item)
                      index == Len(d.graphics)
                               + GraphicsCount(SubSeq(ops, 1, position - 1))
                      operation_graphics == OperationGraphics(child_operation_item)
                  IN  IF operation_graphics = <<>> THEN d
                      ELSE LET operation_graphic ==
                                   operation_graphics[Len(operation_graphics)]
                           IN  [add_listener(d, operation_graphic)
                                  EXCEPT !.drawn_graphics =
                                      InsertAt(@, IF index > Len(@) THEN Len(@) + 1
                                                  ELSE index + 1,
                                               operation_graphic)]

\* Display.operation_removed_from_child_data_item: for each graphic of the
\* operation, remove_listener and then drawn_graphics.remove, which raises
\* when the graphic is not in the list
RECURSIVE remove_operation_graphics(_, _)
remove_operation_graphics(d, gs) ==
    IF gs = <<>> \/ ~Fine(d) THEN d
    ELSE LET operation_graphic == Head(gs)
             d1 == remove_listener(d, operation_graphic)
         IN  IF ~InSeq(d1.drawn_graphics, operation_graphic)
             THEN Fail(d1, "ValueError")
             ELSE remove_operation_graphics(
                      [d1 EXCEPT !.drawn_graphics = RemoveFirst(@, operation_graphic)],
                      Tail(gs))

operation_removed_from_child_data_item(d, operation_item) ==
    remove_operation_graphics(d, OperationGraphics(operation_item))

RECURSIVE remove_graphics(_, _)
remove_graphics(d, gs) ==
    IF gs = <<>> \/ ~Fine(d) THEN d
    ELSE remove_graphics(remove_graphic(d, Head(gs)), Tail(gs))

\* Display.about_to_delete
about_to_delete(d) ==
    LET d1 == [d EXCEPT !.shared_thread_pool_closed = TRUE]
        d2 == remove_graphics(d1, d1.graphics)
    IN  IF Fine(d2) THEN _set_data_item(d2, None) ELSE d2

Alive == ~display.shared_thread_pool_closed

DisplayStep(d) == display' = d /\ UNCHANGED <<connection_vars, schema>>

SetDataItem(data_item) ==
    /\ Alive
    /\ DisplayStep(_set_data_item(Call("_set_data_item"), data_item))

DisplayInsertGraphic(index, g) ==
    /\ Alive
    /\ ~InSeq(display.graphics, g)
    /\ index \in 0..Len(display.graphics)
    /\ DisplayStep(insert_graphic(Call("insert_graphic"), index, g))

DisplayAppendGraphic(g) ==
    /\ Alive
    /\ ~InSeq(display.graphics, g)
    /\ DisplayStep(append_graphic(Call("append_graphic"), g))

\* the lists of graphics extend_graphics is called with
GraphicLists ==
    {gs \in UNION {[1..n -> IntrinsicGraphics] : n \in 1..Cardinality(IntrinsicGraphics)} :
        \A i, j \in 1..Len(gs) : gs[i] = gs[j] => i = j}

DisplayExtendGraphics(gs) ==
    /\ Alive
    /\ \A i \in 1..Len(gs) : ~InSeq(display.graphics, gs[i])
    /\ DisplayStep(extend_graphics(Call("extend_graphics"), gs))

DisplayRemoveGraphic(g) ==
    /\ Alive
    /\ InSeq(display.graphics, g)
    /\ DisplayStep(remove_graphic(Call("remove_graphic"), g))

\* the data item inserts an operation into its child data item and tells
\* its listeners
OperationInserted(op, position) ==
    /\ Alive
    /\ display.data_item = "a"
    /\ Len(display.drawn_graphics) < MaxDrawn
    /\ ~InSeq(display.operations, op)
    /\ position \in 1..(Len(display.operations) + 1)
    /\ DisplayStep(operation_inserted_into_child_data_item(
                       [Call("operation_inserted")
                          EXCEPT !.operations = InsertAt(@, position, op)], op))

\* the data item removes an operation from its child data item and tells
\* its listeners
OperationRemoved(op) ==
    /\ Alive
    /\ display.data_item = "a"
    /\ InSeq(display.operations, op)
    /\ DisplayStep(operation_removed_from_child_data_item(
                       [Call("operation_removed")
                          EXCEPT !.operations = Without(@, op)], op))

\* somebody reads display.preview_2d
ReadPreview ==
    /\ Alive
    /\ DisplayStep(preview_2d(Call("preview_2d")))

\* the data item tells its observers that a property of it has changed
PropertyChanged(property) ==
    /\ Alive
    /\ display.data_item # None
    /\ DisplayStep(property_changed(Call("property_changed"), property))

\* the data item tells its listeners that its content has changed
DataItemContentChanged ==
    /\ Alive
    /\ display.data_item # None
    /\ DisplayStep(data_item_content_changed(Call("data_item_content_changed")))

\* __release_properties is run on the display, as the __exit__ of the
\* guard is written to do
ReleaseProperties ==
    /\ Alive
    /\ DisplayStep(release_properties(Call("release_properties")))

SetDisplayLimits(limits) ==
    /\ Alive
    /\ DisplayStep(set_display_limits(Call("display_limits"), limits))

\* any other use of the guard, with a body that sets a property or raises
UsePropertyChanges(limits, fails) ==
    /\ Alive
    /\ DisplayStep(property_changes(Call("property_changes"), limits, fails))

AboutToDelete ==
    /\ Alive
    /\ DisplayStep(about_to_delete(Call("about_to_delete")))

InitDisplay ==
    /\ ConnectionIs(Blank(PropertyKind, {}, NoValues, <<>>, NoIntervals, <<>>,
                          None, None))
    /\ schema = NewEntities
    /\ display = NewDisplay

NextDisplay ==
    \/ \E a \in DataItems \cup {None} : SetDataItem(a)
    \/ \E g \in IntrinsicGraphics, i \in 0..Cardinality(IntrinsicGraphics) :
            DisplayInsertGraphic(i, g)
    \/ \E g \in IntrinsicGraphics : DisplayAppendGraphic(g)
    \/ \E gs \in GraphicLists : DisplayExtendGraphics(gs)
    \/ \E g \in IntrinsicGraphics : DisplayRemoveGraphic(g)
    \/ \E op \in Operations, i \in 1..Cardinality(Operations) :
            OperationInserted(op, i)
    \/ \E op \in Operations : OperationRemoved(op)
    \/ \E v \in DisplayLimits : SetDisplayLimits(v)
    \/ \E v \in DisplayLimits, fails \in BOOLEAN : UsePropertyChanges(v, fails)
    \/ ReadPreview
    \/ \E property \in {"data_range", "title"} : PropertyChanged(property)
    \/ DataItemContentChanged
    \/ ReleaseProperties
    \/ AboutToDelete

SpecDisplay == InitDisplay /\ [][NextDisplay]_vars

\* ------------------------------------------------------ specifications
NextProperty ==
    \/ \E u \in Objects(PropertyKind) : Register(u)
    \/ \E u \in Objects(PropertyKind) : Unregister(u)
    \/ \E s \in Sources(PropertyKind) \cup {None} : SetSourceSpecifier(s)
    \/ \E s \in Targets(PropertyKind) \cup {None} : SetTargetSpecifier(s)
    \/ \E o \in Objects(PropertyKind), v \in Values : SetProperty(o, v)
    \/ Close

SpecProperty == InitProperty /\ [][NextProperty]_vars

\* a PropertyConnection constructed with a source and without a target
InitDormant ==
    /\ InitProperty
    /\ reference["source"].item # None
    /\ reference["target"].item_specifier = None

SpecDormant == InitDormant /\ [][NextProperty]_vars

\* a PropertyConnection whose specifiers stay as constructed: only the
\* context's register and unregister events and property sets happen
NextRegistration ==
    \/ \E u \in Objects(PropertyKind) : Register(u)
    \/ \E u \in Objects(PropertyKind) : Unregister(u)
    \/ \E o \in Objects(PropertyKind), v \in Values : SetProperty(o, v)

SpecRegistration == InitProperty /\ [][NextRegistration]_vars

NextInterval ==
    \/ \E u \in Objects(IntervalKind) : Register(u)
    \/ \E u \in Objects(IntervalKind) : Unregister(u)
    \/ \E s \in Sources(IntervalKind) \cup {None} : SetSourceSpecifier(s)
    \/ \E s \in Targets(IntervalKind) \cup {None} : SetTargetSpecifier(s)
    \/ \E g \in GraphicIds, i \in 1..Cardinality(GraphicIds) : InsertGraphic(g, i)
    \/ \E g \in GraphicIds : RemoveGraphic(g)
    \/ \E b \in BOOLEAN : ChangeOtherItems(b)
    \/ \E g \in IntervalGraphics, v \in Values : SetInterval(g, v)
    \/ \E d \in ExternalDescriptors : SetIntervalDescriptors(d)
    \/ Close

SpecInterval == InitInterval /\ [][NextInterval]_vars

\* an IntervalListConnection constructed with its display item and its line
\* profile; the display item stays registered and the specifiers stay as
\* constructed, the line profile goes out of and comes back into the context
InitReregistration ==
    /\ InitInterval
    /\ reference["source"].item # None
    /\ reference["target"].item # None

NextReregistration ==
    \/ \E u \in Targets(IntervalKind) : Register(u)
    \/ \E u \in Targets(IntervalKind) : Unregister(u)
    \/ \E g \in GraphicIds, i \in 1..Cardinality(GraphicIds) : InsertGraphic(g, i)
    \/ \E g \in GraphicIds : RemoveGraphic(g)
    \/ \E g \in IntervalGraphics, v \in Values : SetInterval(g, v)

SpecReregistration == InitReregistration /\ [][NextReregistration]_vars

\* ------------------------------------------------------------- claims
Src == reference["source"].item
Tgt == reference["target"].item
OnlySet(o) == [ZeroSets EXCEPT ![o] = 1]
NoError == trace.error = "none"

\* C1 (as claimed): whenever both endpoints of a PropertyConnection are
\* resolved, a change of the source property sets the target property to
\* the same value and a change of the target property sets the source
\* property to the same value
C1_ActiveInBothDirections ==
    (/\ kind = PropertyKind
     /\ ~closed
     /\ Src # None
     /\ Tgt # None
     /\ trace.op = "setattr")
    => /\ trace.obj = Src => (trace.sets[Tgt] >= 1 /\ value[Tgt] = value[Src])
       /\ trace.obj = Tgt => (trace.sets[Src] >= 1 /\ value[Src] = value[Tgt])

\* C2: a PropertyConnection constructed with a source and no target sets no
\* property of any object in a call that leaves the target unresolved, and
\* once the target is resolved a set of the source property sets the target
\* property exactly once and nothing else
C2_DormantUntilTargetRegisters ==
    /\ Tgt = None => trace.sets = ZeroSets
    /\ (/\ ~closed
        /\ Src # None
        /\ Tgt # None
        /\ trace.op = "setattr"
        /\ trace.obj = Src)
       => (trace.sets = OnlySet(Tgt) /\ value[Tgt] = value[Src] /\ NoError)

C2_Witness ==
    /\ ~closed
    /\ Src # None
    /\ Tgt # None
    /\ trace.op = "setattr"
    /\ trace.obj = Src
    /\ trace.sets[Tgt] = 1

\* C3 (as claimed): while the binding of a PropertyConnection exists, one set
\* of the source property from outside makes the connection set the target
\* property once and the source property never, one set of the target
\* property from outside makes it set the source property once and the
\* target property never, and the call ends without error with suppress
\* cleared
C3_OnePropagationEachWay ==
    (/\ kind = PropertyKind
     /\ ~closed
     /\ binding # None
     /\ trace.op = "setattr"
     /\ trace.obj \in {Src, Tgt})
    => /\ NoError
       /\ ~suppress
       /\ trace.obj = Src => trace.sets = OnlySet(Tgt)
       /\ trace.obj = Tgt => trace.sets = OnlySet(Src)

\* C4: the binding exists only while both endpoints are resolved, and a call
\* in which an endpoint stops resolving an object leaves neither a binding
\* nor a target listener on that object, and neither of them at all when the
\* endpoint ends the call unresolved
C4_BindingOnlyWhileResolved ==
    /\ [](binding # None => (Src # None /\ Tgt # None /\ binding = Src))
    /\ [][\A r \in Refs :
            (reference[r].item # None /\ reference'[r].item # reference[r].item)
            => /\ binding' # reference[r].item
               /\ target_property_changed_listener' # reference[r].item
               /\ reference'[r].item = None
                  => (binding' = None /\ target_property_changed_listener' = None)
         ]_vars

C4_Witness ==
    /\ trace.callbacks = << <<"source", "unregistered">> >>
    /\ Tgt # None
    /\ binding = None
    /\ target_property_changed_listener = None

\* C5: once a PropertyConnection is closed it stays closed, holds neither
\* binding nor target listener, and no later call (a property change, a
\* registration) makes it set a property or raise
C5_ClosedIsTerminal ==
    /\ [](closed => /\ binding = None
                    /\ target_property_changed_listener = None
                    /\ trace.sets = ZeroSets
                    /\ trace.callbacks = <<>>
                    /\ NoError)
    /\ [][closed => closed']_vars

C5_Witness ==
    /\ closed
    /\ Src # None
    /\ Tgt # None
    /\ trace.op = "setattr"
    /\ trace.obj = Src
    /\ value[Src] # value[Tgt]

\* the descriptors the connection is to keep on the line profile
Projected(gs, iv) ==
    RegionDescriptors(gs, [interval |-> iv])

\* C6 (as claimed): a closed IntervalListConnection holds no listener (none
\* on item_inserted, on item_removed or on an interval graphic), and no
\* later call makes it recompute
C6_CloseReleasesListeners ==
    (kind = IntervalKind /\ closed)
    => /\ item_inserted_event_listener = None
       /\ item_removed_event_listener = None
       /\ interval_mutated_listeners = <<>>
       /\ trace.recomputed = 0

\* C7 (as claimed): with display and line profile both resolved, after a call
\* that adds a graphic to or removes one from the display's graphics, or that
\* changes the interval of a graphic the connection listens to,
\* interval_descriptors is the list of descriptors of the interval graphics
\* of the display, in graphics order
C7_DescriptorsFollowGraphics ==
    [][(/\ kind = IntervalKind
        /\ ~closed
        /\ Src # None
        /\ Tgt # None
        /\ \/ graphics' # graphics
           \/ \E g \in IntervalGraphics :
                InSeq(interval_mutated_listeners, g) /\ interval'[g] # interval[g])
       => interval_descriptors' = Projected(graphics', interval')
    ]_vars

\* C8: a call in which the connection assigns interval_descriptors changes
\* their value, and a call in which it recomputes a list equal to the current
\* one assigns nothing and leaves interval_descriptors as they are
C8_AssignsOnlyWhenDifferent ==
    [][/\ trace'.assigned >= 1 => interval_descriptors' # interval_descriptors
       /\ (/\ trace'.recomputed >= 1
           /\ Tgt' # None
           /\ interval_descriptors =
                Projected(IF Src' # None THEN graphics' ELSE <<>>, interval'))
          => (trace'.assigned = 0 /\ interval_descriptors' = interval_descriptors)
    ]_vars

C8_Witness ==
    /\ kind = IntervalKind
    /\ trace.op = "call"
    /\ Src # None
    /\ Tgt # None
    /\ trace.recomputed = 1
    /\ trace.assigned = 0
    /\ interval_descriptors # <<>>

\* C9 (as claimed): with the display unresolved and the line profile
\* resolved, neither the constructor nor the registration of the target
\* assigns interval_descriptors
C9_DormantWithoutDisplay ==
    (/\ kind = IntervalKind
     /\ Src = None
     /\ Tgt # None
     /\ \/ trace.op = "init"
        \/ trace.callbacks = << <<"target", "registered">> >>)
    => trace.assigned = 0

\* C10: an open reference resolves its specifier exactly when the context has
\* it registered, and in every call the callbacks of a reference are the ones
\* of the changes of what it resolves: none when it resolves the same item (or
\* nothing) before and after, registered when it starts to resolve, unregistered
\* when it stops, unregistered then registered when it passes to another item;
\* so the callbacks of a reference alternate
Resolution(r) ==
    IF reference[r].item_specifier \in registered
    THEN reference[r].item_specifier
    ELSE None

CallbacksOf(r, tr) ==
    LET own == SelectSeq(tr.callbacks, LAMBDA cb : cb[1] = r)
    IN  [i \in 1..Len(own) |-> own[i][2]]

ExpectedCallbacks(before, after) ==
    IF before = after THEN <<>>
    ELSE IF before = None THEN <<"registered">>
    ELSE IF after = None THEN <<"unregistered">>
    ELSE <<"unregistered", "registered">>

C11_UuidAssignedOnce ==
    /\ persistent.reassigned = 0
    /\ \A i \in 1..Len(persistent.clones) : persistent.clones[i].reassigned = 0

\* C17: a connection rebuilt from a record through connection_factory and
\* read_from_dict has the record's type, uuid, parent, source and target
\* specifiers and property names; its endpoints are unresolved until it is
\* in the context, and from then on each resolves to the object its
\* specifier names whenever the context has that object registered
C17_RecordRoundTrip ==
    /\ trace.op \in {"read", "attach"}
       => persistent.record = <<write_to_dict(Cur)>>
    /\ ~persistent.attached => (Src = None /\ Tgt = None)
    /\ (persistent.attached /\ ~closed)
       => \A r \in Refs : reference[r].item = Resolution(r)

C17_Witness ==
    /\ trace.op = "attach"
    /\ kind = PropertyKind
    /\ persistent.uuid = 1
    /\ persistent.created > 1
    /\ persistent.parent_specifier # None
    /\ Src # None
    /\ Tgt = None
    /\ reference["target"].item_specifier # None
    /\ binding = None

\* C14: when the connection's item_inserted or item_removed listener is
\* delivered for the display's graphics and recomputes, it reads the list as
\* it is after the mutation: the per-interval listeners and the descriptors
\* it leaves are those of the new list, the inserted graphic in its place
\* and the removed one gone
C14_ListenerSeesMutation ==
    [][(/\ kind = IntervalKind
        /\ graphics' # graphics
        /\ trace'.recomputed >= 1)
       => /\ Src' # None
          /\ Tgt' # None
          /\ interval_mutated_listeners' = RegionListeners(graphics')
          /\ interval_descriptors' = Projected(graphics', interval')
    ]_vars

C14_Witness ==
    /\ kind = IntervalKind
    /\ trace.recomputed = 1
    /\ trace.assigned = 1
    /\ Len(graphics) = 3
    /\ IsIntervalGraphic(graphics[1])
    /\ IsIntervalGraphic(graphics[3])
    /\ interval[graphics[1]] # interval[graphics[3]]
    /\ interval_descriptors = Projected(graphics, interval)

\* a step that changes the line profile: its registration, the target
\* reference, or its interval_descriptors assigned by somebody else
LineProfileChanged ==
    \/ \E t \in Targets(IntervalKind) : (t \in registered') # (t \in registered)
    \/ reference'["target"] # reference["target"]
    \/ (interval_descriptors' # interval_descriptors /\ trace'.assigned = 0)

\* C20: no change of the line profile makes an IntervalListConnection modify
\* the display, its graphics or an interval graphic
C20_OneWay ==
    [][(kind = IntervalKind /\ LineProfileChanged)
       => (graphics' = graphics /\ interval' = interval /\ value' = value)
    ]_vars

C20_Witness ==
    /\ kind = IntervalKind
    /\ ~closed
    /\ Src # None
    /\ Tgt # None
    /\ item_inserted_event_listener # None
    /\ trace.op = "call"
    /\ trace.recomputed = 0
    /\ trace.callbacks = <<>>
    /\ Len(graphics) = 2
    /\ interval_mutated_listeners = RegionListeners(graphics)
    /\ interval_descriptors # Projected(graphics, interval)

\* the containers holding x as a component, and the component places
\* (array elements, fields) that hold x
Owners(x) ==
    {p \in Containers :
        \/ schema.fields[p].c_item = x
        \/ InSeq(schema.fields[p].c_items, x)}

Places(x) ==
    {<<p, 0>> : p \in {q \in Containers : schema.fields[q].c_item = x}}
    \cup {pi \in Containers \X (1..MaxLen) :
            /\ pi[2] <= Len(schema.fields[pi[1]].c_items)
            /\ schema.fields[pi[1]].c_items[pi[2]] = x}

C13_EventCounters ==
    /\ \A p \in Containers :
          /\ schema.inserted_count[p] = schema.appends[p]
          /\ schema.removed_count[p] = schema.removes[p]
    /\ schema.last.op = "append"
       => (schema.last.inserted = 1 /\ schema.last.removed = 0)
    /\ schema.last.op = "remove"
       => (schema.last.inserted = 0 /\ schema.last.removed = 1)

C13_Witness ==
    /\ schema.inserted_count["c"] = 3
    /\ schema.removed_count["c"] = 2
    /\ schema.last.op = "remove"
    /\ schema.last.key = "r_items"
    /\ Len(schema.fields["c"].c_items) = 1

\* C15: a reference field is None on a new entity; after it is set, to an
\* item or to None, reading it gives what was set, and the set fired one
\* property_changed
C15_ReferenceField ==
    /\ schema.clock = 0
       => \A p \in Containers : _get_field_value(schema, p, "r_item") = None
    /\ (schema.last.op = "set" /\ schema.last.key = "r_item")
       => /\ _get_field_value(schema, schema.last.obj, "r_item") = schema.last.value
          /\ schema.last.changed = 1

C15_Witness ==
    /\ schema.last.op = "set"
    /\ schema.last.key = "r_item"
    /\ schema.last.old = "i1"
    /\ schema.last.value = None
    /\ schema.changed_count["c"] = 2
    /\ _get_field_value(schema, "c", "r_item") = None

\* C16: a field mutation of an object makes its modified later than it was
\* and leaves the modified of every other object, its container included,
\* as it was
C16_ModifiedAdvances ==
    [][schema'.clock # schema.clock
       => /\ schema'.modified[schema'.last.obj] > schema.modified[schema'.last.obj]
          /\ \A o \in Entities \ {schema'.last.obj} :
                schema'.modified[o] = schema.modified[o]
    ]_vars

C16_Witness ==
    /\ schema.last.op = "flag"
    /\ schema.container[schema.last.obj] = "c"
    /\ schema.modified[schema.last.obj] > schema.modified["c"]
    /\ schema.modified["c"] > 0

\* the part of the events of the last call that concerns the guard
GuardEvents ==
    SelectSeq(display.notes.events,
              LAMBDA e : e \in {"enter", "exit", "properties", "display_changed"})

\* C18 (as claimed): a call that uses property_changes() as a guard enters
\* the scope, and on leaving it, normally or by an exception of the body,
\* sends the 'properties' notification once and display_changed once, and
\* neither before
C18_GuardNotifiesOnceOnExit ==
    display.notes.op \in {"display_limits", "property_changes"}
    => GuardEvents = <<"enter", "exit", "properties", "display_changed">>

\* C19 (as claimed): after about_to_delete() has returned the thread pool is
\* closed, the graphics list is empty, the display has no data item, is
\* observer and listener of none and holds no reference on one, and is
\* listener of no graphic, intrinsic or of an operation
C19_DeleteReleasesEverything ==
    (display.notes.op = "about_to_delete" /\ Fine(display))
    => /\ display.shared_thread_pool_closed
       /\ display.graphics = <<>>
       /\ display.data_item = None
       /\ \A a \in DataItems :
             /\ display.observers[a] = 0
             /\ display.listeners[a] = 0
             /\ display.refs[a] = 0
       /\ \A g \in DrawnGraphics : display.graphic_listeners[g] = 0

\* C21 (as claimed): whenever the source and the target of a PropertyConnection
\* are both resolved, the connection is open and no propagation is in
\* progress, the source property and the target property have the same value
C21_EndpointsAgree ==
    (/\ kind = PropertyKind
     /\ ~closed
     /\ Src # None
     /\ Tgt # None
     /\ ~suppress)
    => value[Src] = value[Tgt]

\* C22 (as claimed): while the display stays registered, whether or not the
\* line profile has been unregistered and registered again in between, a
\* call that adds a graphic to or removes one from the display with the line
\* profile resolved recomputes interval_descriptors from the new graphics
C22_RecomputesAfterReregistration ==
    [][(/\ kind = IntervalKind
        /\ Src # None
        /\ Tgt # None
        /\ graphics' # graphics)
       => /\ trace'.recomputed >= 1
          /\ interval_descriptors' = Projected(graphics', interval')
    ]_vars

\* C23 (as claimed): while the display of an IntervalListConnection is not
\* resolved the connection holds no item_inserted and no item_removed
\* listener and no per-interval listener, and a call that changes the
\* interval of a graphic leaves interval_descriptors as they are
C23_UnregisteredDisplayIsReleased ==
    /\ []((kind = IntervalKind /\ Src = None)
          => /\ item_inserted_event_listener = None
             /\ item_removed_event_listener = None
             /\ interval_mutated_listeners = <<>>)
    /\ [][(/\ kind = IntervalKind
            /\ Src = None
            /\ Src' = None
            /\ interval' # interval)
           => interval_descriptors' = interval_descriptors
        ]_vars

\* C24: in the call that establishes the binding of a PropertyConnection (the
\* constructor given both endpoints, or the call in which the later of the
\* two becomes resolved) the connection sets the target property once, to
\* the value the source property has, sets the source property never, and
\* the source property keeps its value
C24_SourceWinsInitialSync ==
    /\ []((kind = PropertyKind /\ trace.op = "init" /\ binding # None)
          => /\ trace.sets = OnlySet(Tgt)
             /\ value[Tgt] = value[Src]
             /\ NoError)
    /\ [][(kind' = PropertyKind /\ binding' # None /\ binding' # binding)
           => /\ trace'.sets = OnlySet(Tgt')
              /\ value'[Src'] = value[Src']
              /\ value'[Tgt'] = value[Src']
              /\ trace'.error = "none"
        ]_vars

C24_Witness ==
    /\ kind = PropertyKind
    /\ trace.callbacks = << <<"source", "registered">> >>
    /\ binding = Src
    /\ Tgt # None
    /\ target_property_changed_listener = None
    /\ trace.sets = OnlySet(Tgt)
    /\ value[Src] = 1
    /\ value[Tgt] = 1

\* C25: no call on a PropertyConnection (construction, registration or
\* unregistration of an endpoint, a specifier change) raises AssertionError:
\* configure_binding finds no binding and configure_target finds no target
\* listener when it is about to create one
C25_AssertionsHold ==
    kind = PropertyKind => trace.error # "AssertionError"

C25_Witness ==
    /\ kind = PropertyKind
    /\ trace.callbacks = << <<"target", "unregistered">>, <<"target", "registered">> >>
    /\ binding = Src
    /\ Src # None
    /\ target_property_changed_listener = Tgt
    /\ Tgt = "t2"
    /\ NoError

\* the per-interval listeners a recomputation leaves: one per interval
\* graphic of the display's graphics, in order
ListenersOf(source, gs) == RegionListeners(IF source # None THEN gs ELSE <<>>)

\* C26: the connection never holds two per-interval listeners on one
\* graphic; a call that recomputes, from an event of the display or from
\* inside a per-interval listener, leaves exactly one listener per interval
\* graphic of the graphics it read, and a call that does not recompute
\* leaves the listeners as they are
C26_ListenersNeverAccumulate ==
    /\ [](kind = IntervalKind
          => /\ \A i, j \in 1..Len(interval_mutated_listeners) :
                   interval_mutated_listeners[i] = interval_mutated_listeners[j]
                   => i = j
             /\ trace.op = "init"
                => interval_mutated_listeners =
                     IF trace.recomputed >= 1 THEN ListenersOf(Src, graphics)
                     ELSE <<>>)
    /\ [][kind' = IntervalKind
           => interval_mutated_listeners' =
                IF trace'.recomputed >= 1 THEN ListenersOf(Src', graphics')
                ELSE interval_mutated_listeners
        ]_vars

C26_Witness ==
    /\ kind = IntervalKind
    /\ trace.op = "call"
    /\ trace.callbacks = <<>>
    /\ item_inserted_event_listener = None
    /\ item_removed_event_listener = None
    /\ trace.recomputed = 1
    /\ Src # None
    /\ Len(graphics) = 3
    /\ Len(interval_mutated_listeners) = 2

\* C27: the display is observer and listener of, and holds one reference on,
\* its current data item and no other: once each on the current one, none
\* on any data item it had before
C27_OnlyCurrentDataItem ==
    \A a \in DataItems :
        LET n == IF display.data_item = a THEN 1 ELSE 0
        IN  /\ display.observers[a] = n
            /\ display.listeners[a] = n
            /\ display.refs[a] = n

C27_Witness ==
    /\ display.notes.op = "_set_data_item"
    /\ display.data_item = "b"
    /\ display.operations # <<>>
    /\ display.refs["b"] = 1
    /\ display.refs["a"] = 0

\* C28: the first len(graphics) entries of drawn_graphics are the graphics,
\* in order, and the display is listener, once, of exactly the graphics in
\* drawn_graphics
C28_DrawnGraphicsFollowGraphics ==
    /\ Len(display.drawn_graphics) >= Len(display.graphics)
    /\ SubSeq(display.drawn_graphics, 1, Len(display.graphics)) = display.graphics
    /\ \A g \in DrawnGraphics :
          display.graphic_listeners[g] =
              Cardinality({i \in 1..Len(display.drawn_graphics) :
                              display.drawn_graphics[i] = g})

C28_Witness ==
    /\ display.notes.op = "insert_graphic"
    /\ display.graphics = <<"k2", "k1">>
    /\ Len(display.drawn_graphics) = 4
    /\ display.graphic_listeners["k2"] = 1

\* the graphics of a list of operations, one operation after the other
RECURSIVE AllOperationGraphics(_)
AllOperationGraphics(ops) ==
    IF ops = <<>> THEN <<>>
    ELSE OperationGraphics(Head(ops)) \o AllOperationGraphics(Tail(ops))

\* C29 (as claimed): after an operation has been inserted into or removed
\* from the child data item, the call has raised nothing, drawn_graphics is
\* the intrinsic graphics followed by all graphics of the operations there
\* are, operation by operation in order, and the display is listener of
\* exactly these; so a removal undoes the insertion
C29_OperationGraphicsRoundTrip ==
    display.notes.op \in {"operation_inserted", "operation_removed"}
    => /\ Fine(display)
       /\ display.drawn_graphics =
             display.graphics \o AllOperationGraphics(display.operations)
       /\ \A g \in DrawnGraphics :
             display.graphic_listeners[g] =
                 IF InSeq(display.drawn_graphics, g) THEN 1 ELSE 0

====
